---- MODULE Spec2Model ----
(***************************************************************************)
(* Client-side session and chat-turn orchestration of the Drive Chatbot    *)
(* front end: the Home page (OAuth-callback ingestion, session restore,    *)
(* logout), the API client (api.ts), the ChatWindow turn machine and the   *)
(* FolderSelector.                                                         *)
(*                                                                         *)
(* JavaScript strings are modelled as sequences of characters, so that     *)
(* trimming, JSON escaping and concatenation are computed, not assumed.    *)
(* React state is modelled at the granularity of one event handler (or one *)
(* promise continuation) followed by the render and the effects it causes. *)
(***************************************************************************)
EXTENDS Integers, Sequences, FiniteSets, TLC

VARIABLES
    url,              \* query parameters of the current document
    localStorage,     \* value stored under the key "user" (JNull when absent)
    user,             \* Home: useState<User | null>
    loading,          \* Home: useState(true)
    navigating,       \* a navigation to "/" was requested by window.location.href
    messages,         \* ChatWindow: useState<Message[]>
    input,            \* ChatWindow: useState("")
    loadingStage,     \* ChatWindow: useState<LoadingStage>("idle")
    selectedFolderId, \* ChatWindow: useState<string | null>(null)
    turn,             \* number of handleSend calls accepted in this document
    chatCalls,        \* sendChatMessage calls of this document, by turn
    stageTimers,      \* stageTimer1 / stageTimer2 of each handleSend call
    logoutCalls,      \* logoutUser calls in flight
    folders,          \* FolderSelector: useState<{id,name}[]>([])
    isOpen,           \* FolderSelector: useState(false)
    search,           \* FolderSelector: useState("")
    fsLoading,        \* FolderSelector: useState(false) (its "loading")
    fetching,         \* fetchFolders calls in flight
    fetchCount,       \* fetchFolders calls issued in this document
    fetchResult,      \* how the last settled fetchFolders call ended
    lastLoad,         \* history: the branch the effect of Home took in this document
    lastSend,         \* history: whether the last handleSend call returned early
    lastLogout,       \* history: how the fetch of the last settled logoutUser call ended
    userInfoCall      \* the fetchUserInfo call of this document

homeVars   == <<url, localStorage, user, loading, navigating, lastLoad>>
chatVars   == <<messages, input, loadingStage, selectedFolderId>>
turnVars   == <<turn, chatCalls, stageTimers, lastSend>>
folderVars == <<folders, isOpen, search, fsLoading, fetching, fetchCount, fetchResult>>
auxVars    == <<lastLogout, userInfoCall>>
vars == <<url, localStorage, user, loading, navigating, messages, input,
          loadingStage, selectedFolderId, turn, chatCalls, stageTimers,
          logoutCalls, folders, isOpen, search, fsLoading, fetching,
          fetchCount, fetchResult, lastLoad, lastSend, lastLogout, userInfoCall>>

----------------------------------------------------------------------------
(* Bounds of the model *)

MaxTurns == 2
MaxFetches == 2
MaxLogouts == 1
MaxHist == 12
NumIds == 2

Turns == 1..MaxTurns

----------------------------------------------------------------------------
(* JavaScript values *)

JNull == [t |-> "null"]
JUndef == [t |-> "undefined"]
JStr(s) == [t |-> "str", v |-> s]
JObj(f) == [t |-> "obj", v |-> f]

\* ToBoolean, as used by `if (x)`, `x || y`, `!x`
Truthy(x) == x.t = "obj" \/ (x.t = "str" /\ x.v # <<>>)

\* a || b
OrElse(a, b) == IF Truthy(a) THEN a ELSE b

\* property read x.key on a value that is not null or undefined
Get(x, key) == IF x.t = "obj" /\ key \in DOMAIN x.v THEN x.v[key] ELSE JUndef

QUOTE == "\""
BSLASH == "\\"

KeyToken == <<"t", "o", "k", "e", "n">>
KeyName == <<"n", "a", "m", "e">>
KeyEmail == <<"e", "m", "a", "i", "l">>
KeyPicture == <<"p", "i", "c", "t", "u", "r", "e">>
UserKeys == <<KeyToken, KeyName, KeyEmail, KeyPicture>>

DefaultName == <<"U", "s", "e", "r">>

----------------------------------------------------------------------------
(* JSON.stringify and JSON.parse on the subset of JSON made of null,       *)
(* strings and objects, without insignificant white space.                 *)

RECURSIVE EscapeFrom(_, _)
EscapeFrom(s, i) ==
    IF i > Len(s) THEN <<>>
    ELSE (IF s[i] = QUOTE \/ s[i] = BSLASH THEN <<BSLASH, s[i]>> ELSE <<s[i]>>)
         \o EscapeFrom(s, i + 1)

Quoted(s) == <<QUOTE>> \o EscapeFrom(s, 1) \o <<QUOTE>>

RECURSIVE StringifyValue(_, _)
RECURSIVE StringifyMembers(_, _, _, _)

\* keys is the object's own property order; the callers pass it because a
\* TLA+ function does not keep the insertion order a JavaScript object has
StringifyMembers(f, keys, i, first) ==
    IF i > Len(keys) THEN <<>>
    ELSE IF keys[i] \notin DOMAIN f \/ f[keys[i]].t = "undefined"
         THEN StringifyMembers(f, keys, i + 1, first)
         ELSE (IF first THEN <<>> ELSE <<",">>)
              \o Quoted(keys[i]) \o <<":">> \o StringifyValue(f[keys[i]], keys)
              \o StringifyMembers(f, keys, i + 1, FALSE)

StringifyValue(x, keys) ==
    IF x.t = "str" THEN Quoted(x.v)
    ELSE IF x.t = "obj" THEN <<"{">> \o StringifyMembers(x.v, keys, 1, TRUE) \o <<"}">>
    ELSE <<"n", "u", "l", "l">>

JSONStringify(x, keys) == StringifyValue(x, keys)

ParseFail == [ok |-> FALSE]
ParseOk(val, next) == [ok |-> TRUE, val |-> val, next |-> next]

SimpleEscapes == {QUOTE, BSLASH, "/"}

RECURSIVE ScanString(_, _, _)
\* s[j..] is the rest of a string literal whose opening quote was consumed
ScanString(s, j, acc) ==
    IF j > Len(s) THEN ParseFail
    ELSE IF s[j] = QUOTE THEN ParseOk(acc, j + 1)
    ELSE IF s[j] = BSLASH
         THEN IF j + 1 <= Len(s) /\ s[j + 1] \in SimpleEscapes
              THEN ScanString(s, j + 2, Append(acc, s[j + 1]))
              ELSE ParseFail
    ELSE ScanString(s, j + 1, Append(acc, s[j]))

RECURSIVE ParseValue(_, _)
RECURSIVE ParseMembers(_, _, _)

WithMember(f, key, val) ==
    [k \in DOMAIN f \cup {key} |-> IF k = key THEN val ELSE f[k]]

ParseMembers(s, i, acc) ==
    IF i > Len(s) \/ s[i] # QUOTE THEN ParseFail
    ELSE LET k == ScanString(s, i + 1, <<>>) IN
         IF ~k.ok THEN ParseFail
         ELSE IF k.next > Len(s) \/ s[k.next] # ":" THEN ParseFail
         ELSE LET v == ParseValue(s, k.next + 1) IN
              IF ~v.ok THEN ParseFail
              ELSE IF v.next > Len(s) THEN ParseFail
              ELSE IF s[v.next] = "}"
                   THEN ParseOk(JObj(WithMember(acc, k.val, v.val)), v.next + 1)
              ELSE IF s[v.next] = ","
                   THEN ParseMembers(s, v.next + 1, WithMember(acc, k.val, v.val))
              ELSE ParseFail

ParseValue(s, i) ==
    IF i > Len(s) THEN ParseFail
    ELSE IF s[i] = QUOTE
         THEN LET r == ScanString(s, i + 1, <<>>) IN
              IF r.ok THEN ParseOk(JStr(r.val), r.next) ELSE ParseFail
    ELSE IF s[i] = "{"
         THEN IF i + 1 <= Len(s) /\ s[i + 1] = "}"
              THEN ParseOk(JObj(<<>>), i + 2)
              ELSE ParseMembers(s, i + 1, <<>>)
    ELSE IF i + 3 <= Len(s) /\ SubSeq(s, i, i + 3) = <<"n", "u", "l", "l">>
         THEN ParseOk(JNull, i + 4)
    ELSE ParseFail

\* [ok |-> FALSE] stands for the SyntaxError JSON.parse throws
JSONParse(s) ==
    LET r == ParseValue(s, 1) IN
    IF r.ok /\ r.next = Len(s) + 1 THEN [ok |-> TRUE, val |-> r.val] ELSE ParseFail

----------------------------------------------------------------------------
(* String helpers *)

WhiteSpace == {" ", "\t", "\n"}

RECURSIVE TrimStart(_)
TrimStart(s) ==
    IF s # <<>> /\ Head(s) \in WhiteSpace THEN TrimStart(Tail(s)) ELSE s

RECURSIVE TrimEnd(_)
TrimEnd(s) ==
    IF s # <<>> /\ s[Len(s)] \in WhiteSpace THEN TrimEnd(SubSeq(s, 1, Len(s) - 1)) ELSE s

\* String.prototype.trim
Trim_Identity(s) == s

Trim(s) == TrimEnd(TrimStart(s))

----------------------------------------------------------------------------
(* Home (app/page.tsx) *)

NoParams == [token |-> JNull, name |-> JNull, email |-> JNull, picture |-> JNull]

\* the User object built from the OAuth callback parameters
NewUser(u) ==
    JObj([k \in {KeyToken, KeyName, KeyEmail, KeyPicture} |->
            IF k = KeyToken THEN u.token
            ELSE IF k = KeyName THEN OrElse(u.name, JStr(DefaultName))
            ELSE IF k = KeyEmail THEN u.email
            ELSE OrElse(u.picture, JStr(<<>>))])

\* window.history.replaceState({}, "", "/")
ReplaceState_KeepsQuery(u) == u

ReplaceState(u) == NoParams

\* Home renders <ChatWindow user={user}/> when it is not loading and user is
\* truthy; ChatWindow's render reads user.name.split(" ") and throws a
\* TypeError, so that nothing is mounted, when user.name is not a string
ChatMounted ==
    /\ ~loading
    /\ Truthy(user)
    /\ Get(user, KeyName).t = "str"

ChatWindowInit ==
    /\ messages = <<>>
    /\ input = <<>>
    /\ loadingStage = "idle"
    /\ selectedFolderId = JNull

FolderSelectorInit ==
    /\ folders = <<>>
    /\ isOpen = FALSE
    /\ search = <<>>
    /\ fsLoading = FALSE
    /\ fetching = 0

\* the component state a ChatWindow (and its FolderSelector) loses when it is
\* unmounted; the next instance starts from the useState initial values
Unmount ==
    /\ messages' = <<>>
    /\ input' = <<>>
    /\ loadingStage' = "idle"
    /\ selectedFolderId' = JNull
    /\ folders' = <<>>
    /\ isOpen' = FALSE
    /\ search' = <<>>
    /\ fsLoading' = FALSE
    /\ fetching' = 0

TimerIds == {1, 2}
NoCall == [status |-> "none"]
NoTimers == [k \in TimerIds |-> "none"]
NoFetchResult == [outcome |-> [kind |-> "none"], raised |-> FALSE, value |-> <<>>]

\* a new document: every script state, timer and pending request of the old
\* document is gone, Home is mounted with user = null and loading = true
LoadPage(u) ==
    /\ url' = u
    /\ user' = JNull
    /\ loading' = TRUE
    /\ navigating' = FALSE
    /\ Unmount
    /\ turn' = 0
    /\ chatCalls' = [g \in Turns |-> NoCall]
    /\ stageTimers' = [g \in Turns |-> NoTimers]
    /\ logoutCalls' = 0
    /\ fetchCount' = 0
    /\ fetchResult' = NoFetchResult
    /\ lastLoad' = "loading"
    /\ lastSend' = "none"
    /\ lastLogout' = "none"
    /\ userInfoCall' = NoCall
    /\ UNCHANGED localStorage

\* the user reloads the page
Reload == LoadPage(url)

\* the identity provider redirects back to the application root
OAuthRedirect(u) == LoadPage(u)

\* the navigation requested by window.location.href = "/" takes place
NavigationCommit ==
    /\ navigating
    /\ LoadPage(NoParams)

\* the useEffect(..., []) of Home
HomeEffect ==
    /\ loading
    /\ IF Truthy(url.token) /\ Truthy(url.email)
       THEN /\ localStorage' = JStr(JSONStringify(NewUser(url), UserKeys))
            /\ user' = NewUser(url)
            /\ url' = ReplaceState(url)
            /\ lastLoad' = "ingest"
       ELSE /\ url' = url
            /\ IF Truthy(localStorage)
               THEN LET r == JSONParse(localStorage.v) IN
                    IF r.ok
                    THEN user' = r.val /\ localStorage' = localStorage
                         /\ lastLoad' = "restore"
                    ELSE user' = user /\ localStorage' = JNull
                         /\ lastLoad' = "discard"
               ELSE user' = user /\ localStorage' = localStorage
                    /\ lastLoad' = "absent"
    /\ loading' = FALSE
    /\ UNCHANGED <<navigating, chatVars, turnVars, logoutCalls, auxVars, folderVars>>

\* ChatWindow.handleLogout up to its await: logoutUser(user.token) issues the fetch
LogoutStart ==
    /\ ChatMounted
    /\ logoutCalls < MaxLogouts
    /\ logoutCalls' = logoutCalls + 1
    /\ UNCHANGED <<homeVars, chatVars, turnVars, folderVars, auxVars>>

LogoutOutcomes == {"ok", "error-status", "netfault"}

\* fetch rejects on a network fault and resolves on every HTTP status
FetchRejects(o) == o = "netfault"

\* logoutUser (lib/api.ts) once its fetch has settled with outcome o: threw
\* says that the promise it returned rejects, removed that it reached
\* localStorage.removeItem("user")
LogoutUser_Uncaught(o) == [threw |-> FetchRejects(o), removed |-> ~FetchRejects(o)]

\* the rejection of fetch is caught and ignored, the status is not looked at
LogoutUser(o) == [threw |-> FALSE, removed |-> TRUE]

\* the rest of logoutUser and of handleLogout: onLogout() = Home.handleLogout
\* (removeItem, setUser(null)), which is not reached when logoutUser threw
LogoutSettle(o) ==
    /\ logoutCalls > 0
    /\ logoutCalls' = logoutCalls - 1
    /\ lastLogout' = o
    /\ LET r == LogoutUser(o) IN
       /\ localStorage' = IF r.removed \/ ~r.threw THEN JNull ELSE localStorage
       /\ IF r.threw
          THEN UNCHANGED <<user, chatVars, folders, isOpen, search, fsLoading, fetching>>
          ELSE user' = JNull /\ Unmount
    /\ UNCHANGED <<url, loading, navigating, lastLoad, turnVars, fetchCount, fetchResult,
                   userInfoCall>>

----------------------------------------------------------------------------
(* sendChatMessage (lib/api.ts) *)

NetFault == [kind |-> "netfault"]
\* a response with an HTTP status; json tells whether the body decodes as
\* JSON, data is the decoded body and text the raw body
Response(status, json, data, text) ==
    [kind |-> "response", status |-> status, json |-> json, data |-> data, text |-> text]

NoData == [answer |-> JStr(<<>>), intermediate_steps |-> <<>>, tokens |-> 0, error |-> JNull]

ResponseOk(o) == o.status >= 200 /\ o.status <= 299

SessionExpiredMessage == <<"Session expired. Please log in again.">>

Threw(message, expired) == [threw |-> TRUE, message |-> message, expired |-> expired]
Returned(data) == [threw |-> FALSE, data |-> data, expired |-> FALSE]

\* sendChatMessage treating every non-success status as an expired session
SendChatMessage_ExpiresOnError(o) ==
    IF o.kind = "netfault" THEN Threw(<<"Failed to fetch">>, FALSE)
    ELSE IF ~ResponseOk(o) THEN Threw(SessionExpiredMessage, TRUE)
    ELSE IF ~o.json THEN Threw(<<"Unexpected token in JSON">>, FALSE)
    ELSE Returned(o.data)

\* what sendChatMessage does once fetch has settled with outcome o; expired
\* says that it removed "user" from localStorage and set window.location.href
SendChatMessage(o) ==
    IF o.kind = "netfault" THEN Threw(<<"Failed to fetch">>, FALSE)
    ELSE IF o.status = 401 THEN Threw(SessionExpiredMessage, TRUE)
    ELSE IF ~ResponseOk(o) THEN Threw(<<"API error ", ToString(o.status), ": ">> \o o.text, FALSE)
    ELSE IF ~o.json THEN Threw(<<"Unexpected token in JSON">>, FALSE)
    ELSE Returned(o.data)

----------------------------------------------------------------------------
(* fetchUserInfo (lib/api.ts) *)

\* a response of /oauth/me with an HTTP status and a raw body
InfoResponse(status, text) == [kind |-> "response", status |-> status, text |-> text]

\* the own enumerable properties the spread ...data copies: those of an
\* object, the characters of a string by index, none of null
SpreadOf(data) ==
    IF data.t = "obj" THEN data.v
    ELSE IF data.t = "str"
         THEN [k \in {<<ToString(i - 1)>> : i \in 1..Len(data.v)} |->
                 JStr(<<data.v[CHOOSE i \in 1..Len(data.v) : <<ToString(i - 1)>> = k]>>)]
    ELSE <<>>

\* { ...data, token }
MergeToken(data, token) == JObj(WithMember(SpreadOf(data), KeyToken, JStr(token)))

\* fetchUserInfo without its try/catch
FetchUserInfo_NoCatch(o, token) ==
    IF o.kind = "netfault" THEN [threw |-> TRUE, value |-> JUndef]
    ELSE IF ~ResponseOk(o) THEN [threw |-> FALSE, value |-> JNull]
    ELSE IF ~JSONParse(o.text).ok THEN [threw |-> TRUE, value |-> JUndef]
    ELSE [threw |-> FALSE, value |-> MergeToken(JSONParse(o.text).val, token)]

\* what fetchUserInfo(token) does once fetch has settled with outcome o: the
\* rejection of fetch and of response.json() is caught and null is returned
FetchUserInfo(o, token) ==
    IF o.kind = "netfault" THEN [threw |-> FALSE, value |-> JNull]
    ELSE IF ~ResponseOk(o) THEN [threw |-> FALSE, value |-> JNull]
    ELSE IF ~JSONParse(o.text).ok THEN [threw |-> FALSE, value |-> JNull]
    ELSE [threw |-> FALSE, value |-> MergeToken(JSONParse(o.text).val, token)]

\* fetchUserInfo(token) up to its await: it issues the fetch
FetchUserInfoStart(token) ==
    /\ userInfoCall.status # "inflight"
    /\ userInfoCall' = [status |-> "inflight", token |-> token]
    /\ UNCHANGED <<homeVars, chatVars, turnVars, logoutCalls, lastLogout, folderVars>>

\* the fetch settles with outcome o and fetchUserInfo completes
FetchUserInfoSettle(o) ==
    /\ userInfoCall.status = "inflight"
    /\ userInfoCall' = [status |-> "settled", token |-> userInfoCall.token,
                        outcome |-> o, result |-> FetchUserInfo(o, userInfoCall.token)]
    /\ UNCHANGED <<homeVars, chatVars, turnVars, logoutCalls, lastLogout, folderVars>>

----------------------------------------------------------------------------
(* ChatWindow *)

HistoryLimit == 10
StageTimer1Delay == 3500
StageTimer2Delay == 8000

TimerDelay(k) == IF k = 1 THEN StageTimer1Delay ELSE StageTimer2Delay
\* the stage each timer sets
TimerStage_Swapped(k) == IF k = 1 THEN "thinking" ELSE "reading"

TimerStage(k) == IF k = 1 THEN "reading" ELSE "thinking"

FailurePrefix == "(x) "
NoResponseText == <<"No response generated.">>
BackendFailurePrefix == "Failed to reach the backend: "

\* messages.slice(-10)
LastMessages_First(msgs) ==
    IF Len(msgs) <= HistoryLimit THEN msgs ELSE SubSeq(msgs, 1, HistoryLimit)

LastMessages(msgs) ==
    IF Len(msgs) <= HistoryLimit THEN msgs
    ELSE SubSeq(msgs, Len(msgs) - HistoryLimit + 1, Len(msgs))

\* .map((m) => ({ role: m.role, content: m.content }))
ChatHistory(msgs) ==
    [i \in 1..Len(LastMessages(msgs)) |->
        [role |-> LastMessages(msgs)[i].role, content |-> LastMessages(msgs)[i].content]]

\* what generateId() may return: Math.random().toString(36).slice(2, 11) is
\* one of finitely many strings, drawn anew by every call
GeneratedIds == 1..NumIds

\* the early return of handleSend
SendRejected_NoStageCheck(text, stage) == text = <<>>

SendRejected(text, stage) == text = <<>> \/ stage # "idle"

\* the folder_id argument of sendChatMessage: selectedFolderId || undefined
FolderIdArg_Dropped(selected) == JUndef

FolderIdArg(selected) == OrElse(selected, JUndef)

\* setMessages((prev) => [...prev, m])
AppendMessage_Prepend(prev, m) == <<m>> \o prev

AppendMessage(prev, m) == Append(prev, m)

UserMsg(id, text, time) ==
    [id |-> id, role |-> "user", content |-> text, timestamp |-> time]

\* handleSend up to its await: the guard, the user message, the stage
\* timers and the call of sendChatMessage, which issues the fetch; id is
\* what generateId() returns
handleSend(id) ==
    /\ ChatMounted
    /\ IF SendRejected(Trim(input), loadingStage)
       THEN /\ lastSend' = "rejected"
            /\ UNCHANGED <<homeVars, chatVars, turn, chatCalls, stageTimers,
                           logoutCalls, auxVars, folderVars>>
       ELSE /\ turn < MaxTurns
            /\ lastSend' = "accepted"
            /\ messages' = AppendMessage(messages, UserMsg(id, Trim(input), 2 * turn + 1))
            /\ input' = <<>>
            /\ loadingStage' = "searching"
            /\ turn' = turn + 1
            /\ stageTimers' = [stageTimers EXCEPT ![turn + 1] = [k \in TimerIds |-> "pending"]]
            /\ chatCalls' = [chatCalls EXCEPT ![turn + 1] =
                    [status |-> "inflight",
                     message |-> Trim(input),
                     history |-> ChatHistory(messages),
                     token |-> Get(user, KeyToken),
                     folder_id |-> FolderIdArg(selectedFolderId)]]
            /\ UNCHANGED <<homeVars, selectedFolderId, logoutCalls, auxVars, folderVars>>

\* a stage timer of the handleSend call of turn g fires; the timer with
\* the shorter delay, set at the same instant, fires first
TimerFire(g, k) ==
    /\ stageTimers[g][k] = "pending"
    /\ \A j \in TimerIds : TimerDelay(j) < TimerDelay(k) => stageTimers[g][j] # "pending"
    /\ stageTimers' = [stageTimers EXCEPT ![g][k] = "fired"]
    /\ loadingStage' = IF ChatMounted THEN TimerStage(k) ELSE loadingStage
    /\ UNCHANGED <<homeVars, messages, input, selectedFolderId, turn, chatCalls,
                   lastSend, logoutCalls, auxVars, folderVars>>

\* clearTimeout
ClearTimeout_Forgotten(state) == state

ClearTimeout(state) == IF state = "pending" THEN "cancelled" ELSE state

\* the assistant message built from the ChatResponse
AssistantMsg_AnswerFirst(id, data, time) ==
    [id |-> id,
     role |-> "assistant",
     content |-> IF Truthy(data.answer) THEN data.answer.v
                 ELSE IF Truthy(data.error) THEN <<FailurePrefix>> \o data.error.v
                 ELSE NoResponseText,
     timestamp |-> time,
     steps |-> data.intermediate_steps,
     tokens |-> data.tokens,
     isError |-> Truthy(data.error)]

AssistantMsg(id, data, time) ==
    [id |-> id,
     role |-> "assistant",
     content |-> IF Truthy(data.error) THEN <<FailurePrefix>> \o data.error.v
                 ELSE OrElse(data.answer, JStr(NoResponseText)).v,
     timestamp |-> time,
     steps |-> data.intermediate_steps,
     tokens |-> data.tokens,
     isError |-> Truthy(data.error)]

\* the assistant message built in the catch branch
ErrorMsg_Unmarked(id, errMsg, time) ==
    [id |-> id,
     role |-> "assistant",
     content |-> <<BackendFailurePrefix>> \o errMsg,
     timestamp |-> time,
     isError |-> FALSE]

ErrorMsg(id, errMsg, time) ==
    [id |-> id,
     role |-> "assistant",
     content |-> <<BackendFailurePrefix>> \o errMsg,
     timestamp |-> time,
     isError |-> TRUE]

\* the same without the catch of handleSend: what sendChatMessage throws
\* leaves handleSend before clearTimeout, setLoadingStage and setMessages
ChatSettle_NoCatch(g, o, id) ==
    /\ chatCalls[g].status = "inflight"
    /\ chatCalls' = [chatCalls EXCEPT ![g] = [chatCalls[g] EXCEPT !.status = "settled"]
                                            @@ [response |-> o]]
    /\ LET r == SendChatMessage(o) IN
       /\ localStorage' = IF r.expired THEN JNull ELSE localStorage
       /\ navigating' = (navigating \/ r.expired)
       /\ IF r.threw
          THEN UNCHANGED <<stageTimers, loadingStage, messages>>
          ELSE /\ stageTimers' = [stageTimers EXCEPT ![g] =
                                     [k \in TimerIds |-> ClearTimeout(stageTimers[g][k])]]
               /\ IF ChatMounted
                  THEN /\ loadingStage' = "idle"
                       /\ messages' = AppendMessage(messages, AssistantMsg(id, r.data, 2 * g))
                  ELSE UNCHANGED <<loadingStage, messages>>
    /\ UNCHANGED <<url, user, loading, lastLoad, input, selectedFolderId, turn, lastSend,
                   logoutCalls, auxVars, folderVars>>

\* the fetch of turn g settles with outcome o: the rest of sendChatMessage
\* and the rest of handleSend (its try or its catch branch); the state
\* setters of a ChatWindow that is no longer mounted do nothing; id is what
\* generateId() returns
ChatSettle(g, o, id) ==
    /\ chatCalls[g].status = "inflight"
    /\ chatCalls' = [chatCalls EXCEPT ![g] = [chatCalls[g] EXCEPT !.status = "settled"]
                                            @@ [response |-> o]]
    /\ stageTimers' = [stageTimers EXCEPT ![g] = [k \in TimerIds |-> ClearTimeout(stageTimers[g][k])]]
    /\ LET r == SendChatMessage(o) IN
       /\ localStorage' = IF r.expired THEN JNull ELSE localStorage
       /\ navigating' = (navigating \/ r.expired)
       /\ IF ChatMounted
          THEN /\ loadingStage' = "idle"
               /\ messages' = AppendMessage(messages,
                                             IF r.threw THEN ErrorMsg(id, r.message, 2 * g)
                                             ELSE AssistantMsg(id, r.data, 2 * g))
          ELSE UNCHANGED <<loadingStage, messages>>
    /\ UNCHANGED <<url, user, loading, lastLoad, input, selectedFolderId, turn, lastSend,
                   logoutCalls, auxVars, folderVars>>

\* the textarea's onChange (disabled while a turn is in flight) or one of the
\* suggested queries (shown while messages is empty)
SetInput(text) ==
    /\ ChatMounted
    /\ loadingStage = "idle" \/ messages = <<>>
    /\ input' = text
    /\ UNCHANGED <<homeVars, messages, loadingStage, selectedFolderId, turnVars,
                   logoutCalls, auxVars, folderVars>>

\* handleClear; its button is rendered while messages is not empty
handleClear_ResetsStage ==
    /\ ChatMounted
    /\ messages # <<>>
    /\ messages' = <<>>
    /\ input' = <<>>
    /\ loadingStage' = "idle"
    /\ UNCHANGED <<homeVars, selectedFolderId, turnVars, logoutCalls, auxVars, folderVars>>

handleClear ==
    /\ ChatMounted
    /\ messages # <<>>
    /\ messages' = <<>>
    /\ input' = <<>>
    /\ UNCHANGED <<homeVars, loadingStage, selectedFolderId, turnVars, logoutCalls, auxVars, folderVars>>

----------------------------------------------------------------------------
(* fetchFolders (lib/api.ts) and FolderSelector *)

\* hasFolders tells whether the decoded body has a "folders" property
FolderResponse(status, json, hasFolders, list) ==
    [kind |-> "response", status |-> status, json |-> json,
     hasFolders |-> hasFolders, folders |-> list]

\* what fetchFolders does once fetch has settled with outcome o: a rejected
\* fetch and a rejected response.json() are not caught and reject the promise
\* fetchFolders returned
FetchFolders(o) ==
    IF o.kind = "netfault" THEN [raised |-> TRUE, value |-> <<>>]
    ELSE IF ~ResponseOk(o) THEN [raised |-> FALSE, value |-> <<>>]
    ELSE IF ~o.json THEN [raised |-> TRUE, value |-> <<>>]
    ELSE [raised |-> FALSE, value |-> IF o.hasFolders THEN o.folders ELSE <<>>]

\* the condition of the useEffect of FolderSelector
NeedsFetch(open, list) == open /\ Len(list) = 0

\* the useEffect body: setLoading(true); fetchFolders(token)
StartFetch ==
    /\ fetchCount < MaxFetches
    /\ fsLoading' = TRUE
    /\ fetching' = fetching + 1
    /\ fetchCount' = fetchCount + 1

\* the button of the selector: setIsOpen(!isOpen); isOpen is a dependency of
\* the effect, which therefore runs after the render
ToggleOpen ==
    /\ ChatMounted
    /\ isOpen' = ~isOpen
    /\ IF NeedsFetch(isOpen', folders)
       THEN StartFetch
       ELSE UNCHANGED <<fsLoading, fetching, fetchCount>>
    /\ UNCHANGED <<homeVars, chatVars, turnVars, logoutCalls, auxVars, folders, search, fetchResult>>

\* the backdrop shown while the selector is open: setIsOpen(false)
CloseBackdrop ==
    /\ ChatMounted
    /\ isOpen
    /\ isOpen' = FALSE
    /\ UNCHANGED <<homeVars, chatVars, turnVars, logoutCalls, auxVars, folders, search,
                   fsLoading, fetching, fetchCount, fetchResult>>

\* the search box of the open selector
SetSearch(text) ==
    /\ ChatMounted
    /\ isOpen
    /\ search' = text
    /\ UNCHANGED <<homeVars, chatVars, turnVars, logoutCalls, auxVars, folders, isOpen,
                   fsLoading, fetching, fetchCount, fetchResult>>

UpperCase == <<"A", "B", "C", "D", "E", "F", "G", "H", "I", "J", "K", "L", "M",
               "N", "O", "P", "Q", "R", "S", "T", "U", "V", "W", "X", "Y", "Z">>
LowerCase == <<"a", "b", "c", "d", "e", "f", "g", "h", "i", "j", "k", "l", "m",
               "n", "o", "p", "q", "r", "s", "t", "u", "v", "w", "x", "y", "z">>

ToLowerChar(c) ==
    IF \E i \in 1..Len(UpperCase) : UpperCase[i] = c
    THEN LowerCase[CHOOSE i \in 1..Len(UpperCase) : UpperCase[i] = c]
    ELSE c

\* String.prototype.toLowerCase
ToLowerCase_Identity(s) == s

ToLowerCase(s) == [i \in 1..Len(s) |-> ToLowerChar(s[i])]

\* String.prototype.includes
Includes(s, part) ==
    \E i \in 0..(Len(s) - Len(part)) : SubSeq(s, i + 1, i + Len(part)) = part

RECURSIVE FilterFolders(_, _)
FilterFolders(list, text) ==
    IF list = <<>> THEN <<>>
    ELSE (IF Includes(ToLowerCase(Head(list).name), ToLowerCase(text))
          THEN <<Head(list)>> ELSE <<>>)
         \o FilterFolders(Tail(list), text)

\* folders.filter(f => f.name.toLowerCase().includes(search.toLowerCase()))
filteredFolders == FilterFolders(folders, search)

\* the entries of the open selector: "Entire Drive" / "Clear Selection"
\* (onSelect(null)) and, unless loading, one button per filtered folder
SelectFolder(id) ==
    /\ ChatMounted
    /\ isOpen
    /\ \/ id = JNull
       \/ /\ ~fsLoading
          /\ \E i \in 1..Len(filteredFolders) : id = JStr(filteredFolders[i].id)
    /\ selectedFolderId' = id
    /\ isOpen' = FALSE
    /\ UNCHANGED <<homeVars, messages, input, loadingStage, turnVars, logoutCalls, auxVars,
                   folders, search, fsLoading, fetching, fetchCount, fetchResult>>

\* a fetchFolders call settles with outcome o: .then(setFolders) when it
\* returned, .finally(() => setLoading(false)) in both cases, then the
\* effect again when folders.length changed
FolderFetchSettle(o) ==
    /\ ChatMounted
    /\ fetching > 0
    /\ LET r == FetchFolders(o) IN
       /\ fetchResult' = [outcome |-> o, raised |-> r.raised, value |-> r.value]
       /\ folders' = IF r.raised THEN folders ELSE r.value
       /\ IF Len(folders') # Len(folders) /\ NeedsFetch(isOpen, folders')
          THEN /\ fetchCount < MaxFetches
               /\ fsLoading' = TRUE
               /\ fetching' = fetching
               /\ fetchCount' = fetchCount + 1
          ELSE /\ fsLoading' = FALSE
               /\ fetching' = fetching - 1
               /\ fetchCount' = fetchCount
    /\ UNCHANGED <<homeVars, chatVars, turnVars, logoutCalls, auxVars, isOpen, search>>

----------------------------------------------------------------------------
(* Inputs of the environment *)

TokenT1 == <<"T", "1">>
EmailE == <<"e", "@", "x">>
NameJo == <<"J", "o">>
NameQuoted == <<"J", QUOTE, BSLASH>>

Callback(token, name, email, picture) ==
    [token |-> token, name |-> name, email |-> email, picture |-> picture]

ValidCallback == Callback(JStr(TokenT1), JStr(NameJo), JStr(EmailE), JStr(<<>>))

Catalog == << [id |-> <<"1">>, name |-> <<"E", "n", "g">>],
              [id |-> <<"2">>, name |-> <<"F", "i", "n">>] >>

Inputs == { <<" ">>, <<" ", "q", " ">> }

StepData == <<[thought |-> <<"t">>, action |-> <<"gdrive_search">>,
               action_input |-> JNull, observation |-> <<"o">>]>>

\* success, ApiError, NetworkFailure and SessionExpired
TurnOutcomes ==
    { NetFault,
      Response(401, FALSE, NoData, <<>>),
      Response(500, FALSE, NoData, <<"b">>),
      Response(200, TRUE, [answer |-> JStr(<<"A">>), intermediate_steps |-> StepData,
                           tokens |-> 42, error |-> JNull], <<>>) }

ChatOutcomes ==
    TurnOutcomes \cup
    { Response(200, FALSE, NoData, <<"b">>),
      Response(200, TRUE, [answer |-> JStr(<<>>), intermediate_steps |-> <<>>,
                           tokens |-> 0, error |-> JStr(<<"E">>)], <<>>) }

\* every kind of reply: the above, an error reported next to an answer, and a
\* reply with neither answer nor error
ReplyOutcomes ==
    ChatOutcomes \cup
    { Response(200, TRUE, [answer |-> JStr(<<"A">>), intermediate_steps |-> StepData,
                           tokens |-> 7, error |-> JStr(<<"E">>)], <<>>),
      Response(200, TRUE, [answer |-> JStr(<<>>), intermediate_steps |-> <<>>,
                           tokens |-> 0, error |-> JNull], <<>>) }

\* what is typed into the search box: nothing, letters of one folder in
\* another case, a letter of both folders, a letter of none
SearchTexts == { <<>>, <<"e", "N">>, <<"N">>, <<"z">> }

\* the tokens fetchUserInfo is called with
InfoTokens == { TokenT1, <<"T", "2">>, <<>> }

BodyKeys == {KeyToken, KeyName, KeyEmail}

\* the objects /oauth/me may answer with: any of the keys token, name and
\* email, each a string or null
InfoObjects ==
    UNION { { JObj(f) : f \in [S -> {JStr(<<"a">>), JNull}] } : S \in SUBSET BodyKeys }

\* a rejected fetch, non-success statuses, and 2xx answers whose body is
\* empty, cut off, null, a string or one of the objects
InfoOutcomes ==
    { NetFault,
      InfoResponse(401, <<"{", "}">>),
      InfoResponse(500, <<"b">>),
      InfoResponse(200, <<>>),
      InfoResponse(200, <<"{", QUOTE>>),
      InfoResponse(200, <<"n", "u", "l", "l">>),
      InfoResponse(200, Quoted(<<"a", "b">>)) }
    \cup { InfoResponse(200, JSONStringify(x, UserKeys)) : x \in InfoObjects }

FolderOutcomes ==
    { NetFault,
      FolderResponse(500, FALSE, FALSE, <<>>),
      FolderResponse(200, FALSE, FALSE, <<>>),
      FolderResponse(200, TRUE, FALSE, <<>>),
      FolderResponse(200, TRUE, TRUE, <<>>),
      FolderResponse(200, TRUE, TRUE, Catalog) }

----------------------------------------------------------------------------
(* Specifications *)

\* a freshly loaded document with query parameters u and stored payload p
InitPage(u, p) ==
    /\ url = u
    /\ localStorage = p
    /\ user = JNull
    /\ loading = TRUE
    /\ navigating = FALSE
    /\ ChatWindowInit
    /\ FolderSelectorInit
    /\ turn = 0
    /\ chatCalls = [g \in Turns |-> NoCall]
    /\ stageTimers = [g \in Turns |-> NoTimers]
    /\ logoutCalls = 0
    /\ fetchCount = 0
    /\ fetchResult = NoFetchResult
    /\ lastLoad = "loading"
    /\ lastSend = "none"
    /\ lastLogout = "none"
    /\ userInfoCall = NoCall

\* the chat turn machine of a user who arrives from the OAuth redirect
Init == InitPage(ValidCallback, JNull)

Next ==
    \/ HomeEffect
    \/ NavigationCommit
    \/ \E text \in Inputs : SetInput(text)
    \/ handleSend(1)
    \/ \E g \in Turns, k \in TimerIds : TimerFire(g, k)
    \/ \E g \in Turns, o \in TurnOutcomes : ChatSettle(g, o, 1)
    \/ handleClear
    \/ LogoutStart
    \/ \E o \in LogoutOutcomes : LogoutSettle(o)

Spec == Init /\ [][Next]_vars

\* the folder selector of a signed-in user
NextFolder ==
    \/ HomeEffect
    \/ ToggleOpen
    \/ CloseBackdrop
    \/ \E text \in SearchTexts : SetSearch(text)
    \/ \E id \in {JNull, JStr(<<"1">>), JStr(<<"2">>)} : SelectFolder(id)
    \/ \E o \in FolderOutcomes : FolderFetchSettle(o)

SpecFolder == Init /\ [][NextFolder]_vars

\* OAuth callbacks: complete; empty name; characters that JSON escapes and a
\* picture; name and picture absent; empty token; email absent
Callbacks ==
    { ValidCallback,
      Callback(JStr(TokenT1), JStr(<<>>), JStr(EmailE), JStr(<<>>)),
      Callback(JStr(TokenT1), JStr(NameQuoted), JStr(EmailE), JStr(<<"p">>)),
      Callback(JStr(TokenT1), JNull, JStr(EmailE), JNull),
      Callback(JStr(<<>>), JStr(NameJo), JStr(EmailE), JStr(<<>>)),
      Callback(JStr(TokenT1), JStr(NameJo), JNull, JNull) }

\* what may be found under the key "user": nothing, the empty string, text
\* that is not JSON, JSON that is not a User, a User without token, and what
\* Home stored for ValidCallback
StoredPayloads ==
    { JNull,
      JStr(<<>>),
      JStr(<<"{", QUOTE>>),
      JStr(<<"n", "u", "l", "l">>),
      JStr(<<"{", "}">>),
      JStr(JSONStringify(NewUser(Callback(JStr(<<>>), JStr(NameJo), JStr(EmailE), JStr(<<>>))),
                         UserKeys)),
      JStr(JSONStringify(NewUser(ValidCallback), UserKeys)) }

\* the session life cycle: any stored payload, any callback, reloads, logout
InitSession ==
    \E u \in Callbacks \cup {NoParams}, p \in StoredPayloads : InitPage(u, p)

NextSession ==
    \/ HomeEffect
    \/ Reload
    \/ \E u \in Callbacks : OAuthRedirect(u)
    \/ LogoutStart
    \/ \E o \in LogoutOutcomes : LogoutSettle(o)

SpecSession == InitSession /\ [][NextSession]_vars

\* a conversation of n earlier messages, the last one an assistant message, as
\* n / 2 turns leave it (preceded, when n is odd, by the answer of a turn
\* during which the chat was cleared); message i has a content of length i
PriorHistory(n) ==
    [i \in 1..n |->
        IF (n - i) % 2 = 1
        THEN UserMsg(1, [j \in 1..i |-> "m"], i)
        ELSE AssistantMsg(1, [answer |-> JStr([j \in 1..i |-> "m"]),
                              intermediate_steps |-> StepData,
                              tokens |-> 42, error |-> JNull], i)]

\* a signed-in user whose ChatWindow holds n earlier messages
InitHistory ==
    \E n \in 0..MaxHist :
        /\ url = NoParams
        /\ localStorage = JStr(JSONStringify(NewUser(ValidCallback), UserKeys))
        /\ user = NewUser(ValidCallback)
        /\ loading = FALSE
        /\ navigating = FALSE
        /\ messages = PriorHistory(n)
        /\ input = <<>>
        /\ loadingStage = "idle"
        /\ selectedFolderId = JNull
        /\ FolderSelectorInit
        /\ turn = 0
        /\ chatCalls = [g \in Turns |-> NoCall]
        /\ stageTimers = [g \in Turns |-> NoTimers]
        /\ logoutCalls = 0
        /\ fetchCount = 0
        /\ fetchResult = NoFetchResult
        /\ lastLoad = "ingest"
        /\ lastSend = "none"
        /\ lastLogout = "none"
        /\ userInfoCall = NoCall

NextHistory ==
    \/ \E text \in Inputs : SetInput(text)
    \/ handleSend(1)
    \/ \E g \in Turns, k \in TimerIds : TimerFire(g, k)
    \/ \E g \in Turns : ChatSettle(g, NetFault, 1)

SpecHistory == InitHistory /\ [][NextHistory]_vars

\* the chat turn machine under every kind of reply of the chat endpoint
NextReply ==
    \/ HomeEffect
    \/ NavigationCommit
    \/ SetInput(<<" ", "q", " ">>)
    \/ handleSend(1)
    \/ \E g \in Turns, k \in TimerIds : TimerFire(g, k)
    \/ \E g \in Turns, o \in ReplyOutcomes : ChatSettle(g, o, 1)
    \/ handleClear

SpecReply == Init /\ [][NextReply]_vars

----------------------------------------------------------------------------
(* Properties *)

InFlight == {g \in Turns : chatCalls[g].status = "inflight"}
Settled(g) == chatCalls[g].status = "settled"
\* the step issues the sendChatMessage call of turn g
Dispatches(g) == chatCalls[g].status = "none" /\ chatCalls'[g].status = "inflight"

\* C1: no chat call is dispatched while stage is not idle: a handleSend call
\* made while a turn is in flight dispatches nothing, so that at most one
\* sendChatMessage request of a ChatWindow is outstanding.
C1_AtMostOneChatCallInFlight ==
    [][ /\ \A g \in Turns : Dispatches(g) => (loadingStage = "idle" /\ InFlight = {})
        /\ Cardinality({g \in Turns : chatCalls'[g].status = "inflight"}) <= 1 ]_vars

\* a handleSend call with a non-blank text was rejected while a turn is in flight
C1_Witness ==
    /\ lastSend = "rejected"
    /\ InFlight # {}
    /\ loadingStage # "idle"
    /\ Trim(input) # <<>>

\* C2: when a turn settles (success, API error, network fault or expired
\* session) the stage becomes idle, and no stage timer of a settled turn
\* changes the stage afterwards, also not during a later turn.
C2_TerminalEventWins ==
    [][ \A g \in Turns :
          /\ (chatCalls[g].status = "inflight" /\ chatCalls'[g].status = "settled" /\ ChatMounted)
                => loadingStage' = "idle"
          /\ Settled(g) =>
                \A k \in TimerIds :
                    (stageTimers[g][k] = "pending" /\ stageTimers'[g][k] # "pending")
                        => loadingStage' = loadingStage ]_vars

\* the first turn has settled with both timers cancelled and the stage shown
\* was advanced by the first timer of the second turn
C2_Witness ==
    /\ Settled(1)
    /\ \A k \in TimerIds : stageTimers[1][k] = "cancelled"
    /\ chatCalls[2].status = "inflight"
    /\ stageTimers[2][1] = "fired"
    /\ loadingStage = "reading"

\* C3: every exit from a turn cancels both stage timers of the turn: none is
\* pending once the turn has settled, nor once its ChatWindow is unmounted
\* (logout) while the call is in flight.
C3_TimersCancelledOnEveryExit ==
    \A g \in Turns :
        (Settled(g) \/ (chatCalls[g].status = "inflight" /\ ~ChatMounted))
            => \A k \in TimerIds : stageTimers[g][k] # "pending"

\* the step issues an authenticated call: chat, folders or logout
IssuesAuthenticatedCall ==
    \/ \E g \in Turns : Dispatches(g)
    \/ fetchCount' > fetchCount
    \/ logoutCalls' > logoutCalls

\* C4: after a 401 from the chat endpoint (which removed the stored session
\* and requested the navigation to "/") the document issues no further
\* authenticated call.
C4_NoCallAfterSessionExpired ==
    [][ navigating => (localStorage = JNull /\ ~IssuesAuthenticatedCall) ]_vars

FolderFailure(o) == o.kind = "netfault" \/ ~ResponseOk(o)

\* C5: fetchFolders never raises, and on a failure (a non-success response or
\* a network fault) it returns the empty sequence.
C5_FetchFoldersNeverRaises ==
    /\ ~fetchResult.raised
    /\ (fetchResult.outcome.kind # "none" /\ FolderFailure(fetchResult.outcome))
          => fetchResult.value = <<>>

\* C6: opening the selector while the catalog is empty issues one fetchFolders
\* call, and no call is issued while an earlier one is in flight.
C6_FetchCoalesced ==
    [][ /\ (~isOpen /\ isOpen' /\ folders = <<>> /\ fetching = 0) => fetchCount' = fetchCount + 1
        /\ fetchCount' > fetchCount => fetching = 0 ]_vars

IsString(x) == x.t = "str"
Ingestible(p) == IsString(p.token) /\ p.token.v # <<>> /\ IsString(p.email) /\ p.email.v # <<>>
AllPresent(p) == IsString(p.token) /\ IsString(p.name) /\ IsString(p.email) /\ IsString(p.picture)

\* the Session with exactly the values of the callback parameters
ExactSession(p) ==
    JObj((KeyToken :> p.token) @@ (KeyName :> p.name) @@ (KeyEmail :> p.email)
         @@ (KeyPicture :> p.picture))

\* the same with an empty or absent name replaced by "User" and an absent
\* picture by the empty string
DefaultedSession(p) ==
    JObj((KeyToken :> p.token)
         @@ (KeyName :> IF IsString(p.name) /\ p.name.v # <<>> THEN p.name
                        ELSE JStr(<<"U", "s", "e", "r">>))
         @@ (KeyEmail :> p.email)
         @@ (KeyPicture :> IF IsString(p.picture) THEN p.picture ELSE JStr(<<>>)))

\* the effect of Home runs in this step
HomeEffectStep == loading /\ ~loading'

\* C7 as stated: ingesting the callback parameters token, email, name and
\* picture yields a Session with exactly those values.
C7_IngestionKeepsExactValues ==
    [][ (HomeEffectStep /\ lastLoad' = "ingest" /\ AllPresent(url))
            => user' = ExactSession(url) ]_vars

\* C7 amended: ingestion yields the Session with the callback's values, an
\* empty or absent name replaced by "User" and an absent picture by "",
\* stores it so that it parses back to itself, and scrubs the query; a later
\* load without callback parameters restores exactly that Session and stores
\* nothing.
C7_IngestionIdempotent ==
    [][ /\ (HomeEffectStep /\ lastLoad' = "ingest")
            => /\ Ingestible(url)
               /\ user' = DefaultedSession(url)
               /\ IsString(localStorage')
               /\ JSONParse(localStorage'.v) = [ok |-> TRUE, val |-> user']
               /\ url' = NoParams
        /\ \A p \in Callbacks :
              (/\ HomeEffectStep
               /\ Ingestible(p)
               /\ url = NoParams
               /\ localStorage = JStr(JSONStringify(DefaultedSession(p), UserKeys)))
                  => /\ lastLoad' = "restore"
                     /\ user' = DefaultedSession(p)
                     /\ localStorage' = localStorage
                     /\ url' = NoParams ]_vars

\* a reload after the ingestion of a callback whose name is empty or absent
\* restored, from storage, the Session named "User"
C7_Witness ==
    /\ lastLoad = "restore"
    /\ url = NoParams
    /\ \E p \in Callbacks :
          /\ Ingestible(p)
          /\ ~Truthy(p.name)
          /\ user = DefaultedSession(p)
          /\ localStorage = JStr(JSONStringify(user, UserKeys))

WellFormedSession(x) ==
    /\ x.t = "obj"
    /\ \A k \in {KeyToken, KeyName, KeyEmail, KeyPicture} : IsString(Get(x, k))

WellFormedPayload(p) ==
    IF IsString(p) /\ JSONParse(p.v).ok THEN WellFormedSession(JSONParse(p.v).val) ELSE FALSE

\* C8: restoring from a payload that is missing or malformed (not JSON, or
\* JSON that is not a Session) leaves no active session.
C8_RestoreFailsSoft ==
    [][ (HomeEffectStep /\ lastLoad' # "ingest" /\ ~WellFormedPayload(localStorage))
            => ~Truthy(user') ]_vars

\* C9: whenever a Session exists its token is a non-empty string.
C9_SessionTokenNonEmpty ==
    Truthy(user) => (IsString(Get(user, KeyToken)) /\ Get(user, KeyToken).v # <<>>)

\* C10: the history sent by a handleSend call is the last min(10, n) of the n
\* messages held before the call, each reduced to its role and content, in
\* their order; the submitted message is not part of it.
C10_HistoryIsLastTenPrior ==
    [][ \A g \in Turns :
          Dispatches(g) =>
             LET n == Len(messages)
                 k == IF n < 10 THEN n ELSE 10
                 h == chatCalls'[g].history
             IN  /\ Len(h) = k
                 /\ \A i \in 1..k :
                       h[i] = [role |-> messages[n - k + i].role,
                               content |-> messages[n - k + i].content]
                 /\ Len(messages') = n + 1
                 /\ messages'[n + 1].content = chatCalls'[g].message ]_vars

\* a call in flight that was sent with 10 of the 12 messages held before it
C10_Witness ==
    \E g \in Turns :
        /\ chatCalls[g].status = "inflight"
        /\ Len(chatCalls[g].history) = 10
        /\ Len(messages) = 13
        /\ chatCalls[g].history[1].content = messages[3].content

\* a signed-in user whose FolderSelector has loaded the catalog and was closed
InitSelect ==
    /\ url = NoParams
    /\ localStorage = JStr(JSONStringify(NewUser(ValidCallback), UserKeys))
    /\ user = NewUser(ValidCallback)
    /\ loading = FALSE
    /\ navigating = FALSE
    /\ ChatWindowInit
    /\ folders = Catalog
    /\ isOpen = FALSE
    /\ search = <<>>
    /\ fsLoading = FALSE
    /\ fetching = 0
    /\ turn = 0
    /\ chatCalls = [g \in Turns |-> NoCall]
    /\ stageTimers = [g \in Turns |-> NoTimers]
    /\ logoutCalls = 0
    /\ fetchCount = 1
    /\ fetchResult = [outcome |-> FolderResponse(200, TRUE, TRUE, Catalog),
                      raised |-> FALSE, value |-> Catalog]
    /\ lastLoad = "ingest"
    /\ lastSend = "none"
    /\ lastLogout = "none"
    /\ userInfoCall = NoCall

\* folder selection next to the chat turn machine
NextSelect ==
    \/ ToggleOpen
    \/ \E id \in {JNull, JStr(<<"2">>)} : SelectFolder(id)
    \/ SetInput(<<" ", "q", " ">>)
    \/ handleSend(1)
    \/ \E g \in Turns, k \in TimerIds : TimerFire(g, k)
    \/ \E g \in Turns : ChatSettle(g, Response(200, TRUE, [answer |-> JStr(<<"A">>),
                               intermediate_steps |-> StepData, tokens |-> 42,
                               error |-> JNull], <<>>), 1)
    \/ handleClear

SpecSelect == InitSelect /\ [][NextSelect]_vars

\* the chat turn machine with the ids generateId() draws
NextIds ==
    \/ HomeEffect
    \/ \E text \in Inputs : SetInput(text)
    \/ \E id \in GeneratedIds : handleSend(id)
    \/ \E g \in Turns, o \in {NetFault, Response(200, TRUE, [answer |-> JStr(<<"A">>),
                                     intermediate_steps |-> StepData, tokens |-> 42,
                                     error |-> JNull], <<>>)}, id \in GeneratedIds :
          ChatSettle(g, o, id)
    \/ handleClear

SpecIds == Init /\ [][NextIds]_vars

\* calls of fetchUserInfo in a loaded document
NextUserInfo ==
    \/ HomeEffect
    \/ \E token \in InfoTokens : FetchUserInfoStart(token)
    \/ \E o \in InfoOutcomes : FetchUserInfoSettle(o)

SpecUserInfo == Init /\ [][NextUserInfo]_vars

\* the chat turn machine of a ChatWindow that stays mounted, every chat
\* request of which eventually resolves or rejects
NextLive ==
    \/ HomeEffect
    \/ SetInput(<<" ", "q", " ">>)
    \/ handleSend(1)
    \/ \E g \in Turns, k \in TimerIds : TimerFire(g, k)
    \/ \E g \in Turns, o \in TurnOutcomes : ChatSettle(g, o, 1)
    \/ handleClear

SpecLive ==
    /\ Init
    /\ [][NextLive]_vars
    /\ \A g \in Turns :
          WF_vars(\E o \in TurnOutcomes : ChatSettle(g, o, 1))

\* the step in which the sendChatMessage call of turn g settles
Settles(g) == chatCalls[g].status = "inflight" /\ chatCalls'[g].status = "settled"

NonEmptyString(x) == x.t = "str" /\ Len(x.v) > 0

\* the fetch of the chat endpoint resolved with a success status and a body
\* that decodes
ChatSuccess(o) == o.kind = "response" /\ o.status \in 200..299 /\ o.json

\* C11: on a successful chat response the assistant message appended has the
\* failure-prefixed error text as content when the error field is non-empty,
\* otherwise the answer, otherwise the placeholder; isError is true exactly
\* when the error field is non-empty; steps and tokens are those of the
\* response.
C11_AssistantMessageFromResponse ==
    [][ \A g \in Turns :
          (Settles(g) /\ ChatMounted /\ ChatSuccess(chatCalls'[g].response)) =>
             LET d == chatCalls'[g].response.data
                 n == Len(messages)
             IN  /\ Len(messages') = n + 1
                 /\ SubSeq(messages', 1, n) = messages
                 /\ messages'[n + 1].role = "assistant"
                 /\ messages'[n + 1].content =
                        (IF NonEmptyString(d.error) THEN <<"(x) ">> \o d.error.v
                         ELSE IF NonEmptyString(d.answer) THEN d.answer.v
                         ELSE <<"No response generated.">>)
                 /\ messages'[n + 1].isError = NonEmptyString(d.error)
                 /\ messages'[n + 1].steps = d.intermediate_steps
                 /\ messages'[n + 1].tokens = d.tokens ]_vars

\* a first turn answered with an error next to an answer, a second one with
\* neither error nor answer
C11_Witness ==
    /\ Len(messages) = 4
    /\ chatCalls[1].status = "settled" /\ chatCalls[2].status = "settled"
    /\ ChatSuccess(chatCalls[1].response) /\ ChatSuccess(chatCalls[2].response)
    /\ NonEmptyString(chatCalls[1].response.data.error)
    /\ NonEmptyString(chatCalls[1].response.data.answer)
    /\ messages[2].role = "assistant" /\ messages[4].role = "assistant"
    /\ messages[2].isError /\ messages[2].content = <<"(x) ", "E">>
    /\ ~messages[4].isError /\ messages[4].content = NoResponseText

\* SessionExpired, ApiError, a network fault or a body that does not decode
ChatFailure(o) == ~ChatSuccess(o)

\* C12: whenever sendChatMessage fails (expired session, API error, network
\* fault or undecodable body) the stage becomes idle and exactly one assistant
\* message marked isError, describing the fault, is appended.
C12_FailureEndsIdleWithOneErrorMessage ==
    [][ \A g \in Turns :
          (Settles(g) /\ ChatMounted /\ ChatFailure(chatCalls'[g].response)) =>
             LET o == chatCalls'[g].response
                 n == Len(messages)
             IN  /\ loadingStage' = "idle"
                 /\ Len(messages') = n + 1
                 /\ SubSeq(messages', 1, n) = messages
                 /\ messages'[n + 1].role = "assistant"
                 /\ messages'[n + 1].isError = TRUE
                 /\ Head(messages'[n + 1].content) = "Failed to reach the backend: "
                 /\ Len(messages'[n + 1].content) > 1
                 /\ (o.kind = "response" /\ o.status = 401)
                       => messages'[n + 1].content[2] = "Session expired. Please log in again." ]_vars

\* the reply of the first turn did not decode while the stage was "thinking":
\* the stage is idle and the message after the user's is the error message
C12_Witness ==
    /\ chatCalls[1].status = "settled"
    /\ chatCalls[1].response.kind = "response"
    /\ chatCalls[1].response.status = 200 /\ ~chatCalls[1].response.json
    /\ stageTimers[1][2] = "fired"
    /\ loadingStage = "idle"
    /\ Len(messages) = 2
    /\ messages[2].role = "assistant" /\ messages[2].isError

\* a network fault, or a non-success status other than 401
NonAuthFailure(o) ==
    \/ o.kind = "netfault"
    \/ o.kind = "response" /\ o.status # 401 /\ o.status \notin 200..299

\* C13: a chat failure other than 401 leaves the session as it was, in memory
\* and in storage, requests no navigation, reports a non-success status with
\* the status and the raw body, and leaves the ChatWindow mounted and idle, so
\* that the next handleSend call with a non-blank text is accepted.
C13_NonAuthFailureKeepsSession ==
    [][ \A g \in Turns :
          (Settles(g) /\ NonAuthFailure(chatCalls'[g].response)) =>
             LET o == chatCalls'[g].response IN
             /\ user' = user
             /\ localStorage' = localStorage
             /\ navigating' = navigating
             /\ ChatMounted =>
                   /\ ChatMounted'
                   /\ loadingStage' = "idle"
                   /\ \A text \in Inputs :
                         Trim(text) # <<>> => ~SendRejected(Trim(text), loadingStage')
                   /\ o.kind = "response" =>
                         messages'[Len(messages')].content =
                            <<"Failed to reach the backend: ", "API error ",
                              ToString(o.status), ": ">> \o o.text ]_vars

\* the first turn failed with status 500 and the second handleSend call was
\* accepted, with the session still in memory and in storage
C13_Witness ==
    /\ chatCalls[1].status = "settled"
    /\ chatCalls[1].response.kind = "response"
    /\ chatCalls[1].response.status = 500
    /\ lastSend = "accepted"
    /\ chatCalls[2].status = "inflight"
    /\ chatCalls[2].token = Get(user, KeyToken)
    /\ Truthy(user)
    /\ localStorage = JStr(JSONStringify(user, UserKeys))
    /\ ~navigating

\* the step in which a logoutUser call, and with it handleLogout, completes
LogoutSettles == logoutCalls' = logoutCalls - 1 /\ lastLogout' \in LogoutOutcomes

\* C14: logout calls the backend and then clears the session, the stored
\* payload and the user in memory, whether the call succeeded, returned an
\* error status or failed at the network level; the user in memory is not
\* cleared otherwise.
C14_LogoutClearsUnconditionally ==
    [][ /\ LogoutSettles => (user' = JNull /\ localStorage' = JNull)
        /\ (Truthy(user) /\ ~Truthy(user') /\ ~loading') => (LogoutSettles /\ logoutCalls > 0)
      ]_vars

\* the logout call failed at the network level and no session is left
C14_Witness ==
    /\ lastLogout = "netfault"
    /\ lastLoad = "ingest"
    /\ logoutCalls = 0
    /\ user = JNull
    /\ localStorage = JNull

\* empty or made of white space only
Blank(s) == \A i \in 1..Len(s) : s[i] \in {" ", "\t", "\n"}

\* C15: a handleSend call made while the text is empty or white space only,
\* or while the stage is not idle, changes neither the history, the input,
\* the stage nor the timers and dispatches no call; no turn starts in such a
\* state.
C15_RejectedSubmitIsNoOp ==
    [][ /\ (lastSend' = "rejected" /\ lastSend # "rejected")
              => /\ Blank(input) \/ loadingStage # "idle"
                 /\ UNCHANGED <<messages, input, loadingStage, stageTimers, chatCalls, turn>>
        /\ (ChatMounted /\ (Blank(input) \/ loadingStage # "idle"))
              => /\ turn' <= turn
                 /\ \A g \in Turns : ~Dispatches(g)
                 /\ lastSend' = "accepted" => lastSend = "accepted" ]_vars

\* a handleSend call was rejected before any turn of the document, hence for
\* its blank text, and the input still holds white space
C15_Witness ==
    /\ lastSend = "rejected"
    /\ input = <<" ">>
    /\ loadingStage = "idle"
    /\ turn = 0
    /\ messages = <<>>

\* the step of handleClear: the history of a ChatWindow that stays mounted
\* becomes empty
ClearStep == ChatMounted /\ ChatMounted' /\ messages # <<>> /\ messages' = <<>>

\* C16: Clear empties the history and the input and changes neither the
\* stage, the folder selection, the timers nor the call of a turn in flight,
\* whatever the stage.
C16_ClearFrame ==
    [][ ClearStep => /\ input' = <<>>
                     /\ UNCHANGED <<loadingStage, selectedFolderId, stageTimers, chatCalls,
                                    turn, user, localStorage>> ]_vars

\* the history was cleared during the first turn, which is still in flight
\* with its second timer pending, the stage "reading" and a folder selected
C16_Witness ==
    /\ messages = <<>>
    /\ input = <<>>
    /\ turn = 1
    /\ chatCalls[1].status = "inflight"
    /\ loadingStage = "reading"
    /\ stageTimers[1][2] = "pending"
    /\ selectedFolderId = JStr(<<"2">>)
    /\ chatCalls[1].folder_id = JStr(<<"2">>)

\* the step of onSelect: the selection of a mounted ChatWindow changes
SelectionStep == selectedFolderId' # selectedFolderId /\ ChatMounted'

\* C17: selecting a folder or null issues no network call and leaves the
\* request of a turn in flight as it is; the folder_id of a chat request is
\* the selection held when handleSend was called (absent for null), and
\* does not change afterwards.
C17_SelectionAppliesToNextTurn ==
    [][ /\ SelectionStep => (~IssuesAuthenticatedCall /\ chatCalls' = chatCalls)
        /\ \A g \in Turns :
              /\ Dispatches(g) =>
                    chatCalls'[g].folder_id =
                       (IF selectedFolderId = JNull THEN JUndef ELSE selectedFolderId)
              /\ (chatCalls[g].status # "none" /\ chatCalls'[g].status # "none")
                    => chatCalls'[g].folder_id = chatCalls[g].folder_id ]_vars

\* the first request went out without folder_id; folder "2" was selected
\* while it was in flight and is the folder_id of the second request, during
\* which the selection was set back to null
C17_Witness ==
    /\ chatCalls[1].status = "settled"
    /\ chatCalls[1].folder_id = JUndef
    /\ chatCalls[2].status = "inflight"
    /\ chatCalls[2].folder_id = JStr(<<"2">>)
    /\ selectedFolderId = JNull

SameLetter(a, b) ==
    \/ a = b
    \/ \E i \in 1..Len(UpperCase) : {a, b} = {UpperCase[i], LowerCase[i]}

\* text occurs in name, letters compared without regard to case
ContainsIgnoringCase(name, text) ==
    \E i \in 1..(Len(name) - Len(text) + 1) :
        \A j \in 1..Len(text) : SameLetter(name[i + j - 1], text[j])

\* C18: the folders listed are, in catalog order, exactly those whose name
\* contains the search text without regard to case, and all folders when the
\* search text is empty.
C18_FilterIsCaseInsensitiveSubstring ==
    /\ filteredFolders = SelectSeq(folders, LAMBDA f : ContainsIgnoringCase(f.name, search))
    /\ search = <<>> => filteredFolders = folders

\* the search text "eN" lists the folder "Eng" of the catalog and not "Fin"
C18_Witness ==
    /\ folders = Catalog
    /\ search = <<"e", "N">>
    /\ filteredFolders = <<Catalog[1]>>

\* C19: no two messages of the history of a ChatWindow have the same id.
C19_MessageIdsUnique ==
    \A i, j \in 1..Len(messages) : messages[i].id = messages[j].id => i = j

\* the /oauth/me call failed: rejected fetch, non-success status or a body
\* that does not decode
InfoFailure(o) ==
    \/ o.kind = "netfault"
    \/ o.status \notin 200..299
    \/ ~JSONParse(o.text).ok

\* C20: fetchUserInfo never raises; on a failure it returns null, and on
\* success the decoded body with its token property set to the token it was
\* called with.
C20_FetchUserInfoNeverRaises ==
    userInfoCall.status = "settled" =>
        LET o == userInfoCall.outcome
            r == userInfoCall.result
        IN  /\ ~r.threw
            /\ InfoFailure(o) => r.value = JNull
            /\ ~InfoFailure(o) =>
                  LET body == JSONParse(o.text).val IN
                  /\ r.value.t = "obj"
                  /\ KeyToken \in DOMAIN r.value.v
                  /\ r.value.v[KeyToken] = JStr(userInfoCall.token)
                  /\ body.t = "obj" =>
                        /\ DOMAIN r.value.v = DOMAIN body.v \cup {KeyToken}
                        /\ \A k \in DOMAIN body.v \ {KeyToken} : r.value.v[k] = body.v[k]
                  /\ body.t = "null" => DOMAIN r.value.v = {KeyToken}

\* a call with token T1 answered with a body that names another token, a
\* name and an email returned that body with the token T1
C20_Witness ==
    /\ userInfoCall.status = "settled"
    /\ userInfoCall.token = TokenT1
    /\ ~InfoFailure(userInfoCall.outcome)
    /\ JSONParse(userInfoCall.outcome.text).val =
          JObj((KeyToken :> JStr(<<"a">>)) @@ (KeyName :> JStr(<<"a">>)) @@ (KeyEmail :> JStr(<<"a">>)))
    /\ userInfoCall.result.value =
          JObj((KeyToken :> JStr(TokenT1)) @@ (KeyName :> JStr(<<"a">>)) @@ (KeyEmail :> JStr(<<"a">>)))

IsPrefix(s, t) == Len(s) <= Len(t) /\ SubSeq(t, 1, Len(s)) = s

\* C21: the history of a ChatWindow is append-only and its messages are
\* immutable: every step of a mounted ChatWindow other than Clear leaves the
\* previous history as a prefix of the new one.
C21_HistoryAppendOnly ==
    [][ (ChatMounted /\ ChatMounted' /\ ~ClearStep) => IsPrefix(messages, messages') ]_vars

\* the second turn is in flight after three messages were appended one by one
C21_Witness ==
    /\ Len(messages) = 3
    /\ turn = 2
    /\ chatCalls[2].status = "inflight"
    /\ messages[1].role = "user" /\ messages[2].role = "assistant"
    /\ messages[3].role = "user"
    /\ messages[1].id # messages[2].id

\* the step in which timer k of turn g fires
Fires(g, k) == stageTimers[g][k] = "pending" /\ stageTimers'[g][k] = "fired"

\* C22: the stage of a mounted ChatWindow changes only along idle ->
\* searching -> reading -> thinking, or back to idle from any of them: the
\* first timer takes it from searching to reading, the second from reading to
\* thinking, and it never goes back from thinking to reading or from reading
\* to searching.
C22_StageMovesForward ==
    [][ (ChatMounted /\ ChatMounted') =>
          /\ loadingStage' # loadingStage =>
                <<loadingStage, loadingStage'>> \in
                   { <<"idle", "searching">>, <<"searching", "reading">>,
                     <<"reading", "thinking">>, <<"searching", "idle">>,
                     <<"reading", "idle">>, <<"thinking", "idle">> }
          /\ \A g \in Turns :
                /\ Fires(g, 1) => (loadingStage = "searching" /\ loadingStage' = "reading")
                /\ Fires(g, 2) => (loadingStage = "reading" /\ loadingStage' = "thinking")
                /\ Dispatches(g) => (loadingStage = "idle" /\ loadingStage' = "searching")
      ]_vars

\* the second turn has gone through reading to thinking after the first one
\* ended while reading
C22_Witness ==
    /\ Settled(1)
    /\ stageTimers[1][1] = "fired" /\ stageTimers[1][2] = "cancelled"
    /\ chatCalls[2].status = "inflight"
    /\ stageTimers[2][1] = "fired" /\ stageTimers[2][2] = "fired"
    /\ loadingStage = "thinking"

\* C23: a turn whose chat request eventually resolves or rejects ends: the
\* call settles with the stage idle, the settling step appending exactly one
\* assistant message, and a settled call stays settled; as long as the
\* request has not settled the stage is not idle and no handleSend call
\* dispatches.
C23_TurnTerminates ==
    /\ \A g \in Turns :
          (chatCalls[g].status = "inflight")
             ~> (chatCalls[g].status = "settled" /\ loadingStage = "idle")
    /\ [][ \A g \in Turns :
              /\ Settles(g) => /\ loadingStage' = "idle"
                               /\ Len(messages') = Len(messages) + 1
                               /\ messages'[Len(messages')].role = "assistant"
              /\ Settled(g) => (Settled(g))'
              /\ InFlight # {} => ~Dispatches(g) ]_vars
    /\ [][ (Len(messages') > Len(messages) /\ messages'[Len(messages')].role = "assistant")
              => \E g \in Turns : Settles(g) ]_vars
    /\ [](InFlight # {} => loadingStage # "idle")

\* both turns have ended, one by a rejected fetch, with one assistant
\* message each and the stage idle
C23_Witness ==
    /\ Settled(1) /\ Settled(2)
    /\ chatCalls[1].response.kind = "netfault"
    /\ loadingStage = "idle"
    /\ Len(messages) = 4
    /\ messages[2].role = "assistant" /\ messages[4].role = "assistant"
    /\ messages[1].role = "user" /\ messages[3].role = "user"

\* C24: once a fetchFolders call of the document has completed by returning
\* a catalog, whatever it returned, no further fetchFolders call is issued.
C24_CatalogCached ==
    [][ (fetchResult.outcome.kind # "none" /\ ~fetchResult.raised)
            => fetchCount' <= fetchCount ]_vars

\* C25: the history alternates user, assistant, user, ... and starts with a
\* user message, so that every assistant message follows the user message of
\* its turn.
C25_HistoryAlternates ==
    \A i \in 1..Len(messages) :
        messages[i].role = (IF i % 2 = 1 THEN "user" ELSE "assistant")

\* the value stored under "user" decodes to an object
StoredSession ==
    /\ IsString(localStorage)
    /\ JSONParse(localStorage.v).ok
    /\ JSONParse(localStorage.v).val.t = "obj"

\* C26: once the effect of Home has run, the user in memory is present
\* exactly when storage holds a session, and both then carry the same token.
C26_MemoryAndStorageAgree ==
    ~loading =>
        /\ Truthy(user) <=> StoredSession
        /\ (Truthy(user) /\ StoredSession)
              => Get(user, KeyToken) = Get(JSONParse(localStorage.v).val, KeyToken)

\* C27: in a mounted ChatWindow the stage is other than idle exactly when
\* one sendChatMessage call of the document has been dispatched and has not
\* settled.
C27_StageTracksOutstandingCall ==
    ChatMounted => (loadingStage \in {"searching", "reading", "thinking"}
                       <=> Cardinality(InFlight) = 1)

\* the second call is outstanding with the stage "thinking", the first one
\* having settled
C27_Witness ==
    /\ ChatMounted
    /\ Settled(1)
    /\ InFlight = {2}
    /\ loadingStage = "thinking"

\* C28: the loading flag of a mounted FolderSelector is true in every state
\* in which a fetchFolders call it issued is in flight (and false once all
\* of them have settled).
C28_LoadingWhileFetching ==
    ChatMounted => (fsLoading <=> fetching > 0)

====
